---- MODULE Spec2Model ----
(***************************************************************************)
(* The queue pipeline of downloader.py / crawler.py: main starts a pool of *)
(* download_worker threads and one crawl_images thread which share one     *)
(* FIFO queue.Queue.  crawl_images fetches listing pages through the       *)
(* retried fetch_page / create_driver and puts detail URLs, then the       *)
(* sentinel None; each worker resolves a detail URL (fetch_detail_page)    *)
(* and downloads the image (download_image) under file_lock.               *)
(***************************************************************************)
EXTENDS Integers, Sequences, FiniteSets, TLC

(* ---------------------------------------------------------------------- *)
(* Bounds of the model                                                     *)
(* ---------------------------------------------------------------------- *)
PoolSizes == {1, 2}    \* the values max_workers is drawn from
PageBudgets == {1, 2}  \* the values max_pages is drawn from
MaxHttpFails == 2    \* a call's first 0..MaxHttpFails HTTP requests fail
MaxDriverFaults == 3 \* WebDriver failures injected during one fetch_page call

(* ---------------------------------------------------------------------- *)
(* Program constants                                                       *)
(* ---------------------------------------------------------------------- *)
stop_max_attempt_number == 3

\* The sentinel / "not found" value None.  Detail URLs are 1, 2, ...
None == 0

(* ---------------------------------------------------------------------- *)
(* The site served to the program (the external collaborators)             *)
(* ---------------------------------------------------------------------- *)
\* Listing pages: the detail links a rendered page holds and whether it has
\* a next-page link (which leads to the following page).  Page 3 is not
\* linked from the others; it can only be the starting URL.
Site ==
  << [links |-> {1, 2}, next |-> TRUE],
     [links |-> {3},    next |-> FALSE],
     [links |-> {},     next |-> FALSE] >>

NumListing == Len(Site)

\* Detail pages: the href of the download button, None when the page has
\* no button.  Final URLs are 11 and 12.
Button == [d \in {1, 2, 3} |-> IF d = 1 THEN 11 ELSE IF d = 2 THEN 12 ELSE None]

\* The text of the final URLs: the path segments, the last one split at its
\* first '?'.  11 and 12 are different images with the same last segment.
UrlText ==
  [u \in {11, 12} |->
     IF u = 11 THEN [segs |-> <<"album1", "pic.jpg">>, query |-> ""]
               ELSE [segs |-> <<"album2", "pic.jpg">>, query |-> "v=2"]]

\* The body served for a final URL, as its sequence of chunks.
BodyOf(u) == << u * 10 + 1, u * 10 + 2 >>

(* ---------------------------------------------------------------------- *)
(* State                                                                   *)
(* ---------------------------------------------------------------------- *)
VARIABLES
  mpc,            \* main: position
  urlOk,          \* main: url starts with http:// or https://
  url,            \* the url argument of crawl_images (a listing page)
  max_workers,
  max_pages,
  dirExists,      \* save_dir exists
  summary,        \* main: what the closing message reports, field -> value
  detail_queue,   \* queue.Queue contents, head first
  cpc,            \* crawl_images: position
  page_num,       \* crawl_images: page_num
  page_source,    \* crawl_images: the listing page fetch_page returned (0: none)
  toPut,          \* crawl_images: detail_urls not yet put by the for loop
  putLog,         \* history: detail URLs put on the queue, in order
  fetchCalls,     \* history: fetch_page calls made by crawl_images
  fp_attempt,     \* retrying: attempt number of the running fetch_page call
  cd_attempt,     \* retrying: attempt number of the running create_driver call
  open_drivers,   \* WebDriver sessions created and not yet quit
  driverFaults,   \* WebDriver failures that may still hit the running fetch_page call
  fp_log,         \* history: outcomes of the attempts of the current fetch_page call
  fp_result,      \* history: how the last fetch_page call ended
  cdInCall,       \* history: create_driver bodies run during the current fetch_page call
  wpc,            \* download_worker: position, per worker
  detail_url,     \* download_worker: detail_url, per worker
  actual_url,     \* download_worker: actual_url, per worker
  attempts,       \* retrying: attempts made by the worker's running call
  httpFails,      \* how many of the running call's first requests fail (0 after it)
  result,         \* return value of the worker's last download_image call
  chunkNo,        \* download_image: chunks written so far by the worker
  file_lock,      \* holder of file_lock, 0 when free
  fs,             \* save_dir: file name -> [exists, data, src]
  getLog,         \* history: detail URLs dequeued, in order
  finished,       \* history: dequeued detail URLs whose processing ended
  sentinels,      \* history: per worker, times it dequeued None
  tally,          \* history: download_image calls that returned True, items that failed
  lpc,            \* link_fetcher.fetch_image_links: position ("off": not run)
  current_url,    \* fetch_image_links: current_url (None after the last page)
  lf_attempt,     \* retrying: attempts of the running fetch_page_with_driver call
  driver,         \* fetch_image_links: its WebDriver session, "none", "open" or "quit"
  futures,        \* the executor's tasks: detail URL -> [pc, attempt, session, value]
  image_urls,     \* fetch_image_links: image_urls
  lf_links,       \* what fetch_image_links returned: [returned, value]
  xpc,            \* link extraction of one img element: position ("off": not run)
  img,            \* the element: attribute name -> value
  chosen,         \* history: the attribute the or chain took its value from
  img_url,        \* crawl_images: img_url
  kept,           \* the marker check of line 122 passed
  im_pc,          \* image_downloader.main: position ("off": not run)
  im_page_num,    \* image_downloader.fetch_image_links: page_num
  im_page_source, \* fetch_image_links: the listing page last returned (0: none)
  im_attempt,     \* retrying: attempts of the running fetch_page_with_driver call
  im_futures,     \* fetch_detail_page tasks: detail URL -> [pc, attempt, value]
  im_image_urls,  \* fetch_image_links: image_urls, in insertion order
  im_links,       \* what fetch_image_links returned: [returned, value]
  im_submitted,   \* history: the URLs main submitted to download_image, in order
  im_downloads,   \* main: download_image tasks, position in the list -> outcome
  downloaded_count

mvars == <<mpc, urlOk, url, max_workers, max_pages, dirExists, summary>>
lvars == <<cpc, page_num, page_source, toPut, putLog, fetchCalls>>
fvars == <<fp_attempt, cd_attempt, open_drivers, driverFaults, fp_log,
           fp_result, cdInCall>>
cvars == <<lvars, fvars>>
wvars == <<wpc, detail_url, actual_url, attempts, httpFails, result, chunkNo,
           file_lock, fs, getLog, finished, sentinels,
          tally>>
pipeline == <<mvars, detail_queue, cvars, wvars>>
linkvars == <<lpc, current_url, lf_attempt, driver, futures, image_urls, lf_links>>
imgvars == <<xpc, img, chosen, img_url, kept>>
fanvars == <<im_pc, im_page_num, im_page_source, im_attempt, im_futures,
             im_image_urls, im_links, im_submitted, im_downloads,
             downloaded_count>>
others == <<linkvars, imgvars, fanvars>>
vars == <<pipeline, others>>

Workers == 1 .. max_workers

(* ---------------------------------------------------------------------- *)
(* Pure helpers                                                            *)
(* ---------------------------------------------------------------------- *)
\* A retry rule that allows one attempt too many.
ShouldRetryOnceMore(raised, attempt) ==
  raised /\ attempt <= stop_max_attempt_number

\* retrying.retry(stop_max_attempt_number=3): run again after an attempt
\* that raised, unless it was attempt number stop_max_attempt_number.
ShouldRetry(raised, attempt) == raised /\ attempt < stop_max_attempt_number

\* A file name taken from the directory part of the URL.
FileNameByAlbum(u) == UrlText[u].segs[1]

\* url.split('/')[-1].split('?')[0] or f"image_{hash(url)}.jpg"
FileName(u) ==
  LET last == UrlText[u].segs[Len(UrlText[u].segs)]
  IN  IF last # "" THEN last ELSE "image_hash.jpg"

FileNames == { FileName(u) : u \in DOMAIN UrlText }

NoFile == [exists |-> FALSE, data |-> <<>>, src |-> None]

\* fetch_page's scroll loop clicks "next" while the button is found and
\* page_count < max_pages; a wait that times out or a click that fails is
\* caught and ends the loop.  From listing page p it can make j clicks when
\* the j pages before the last one all have the button.
CanClick(p, j) ==
  /\ j <= max_pages
  /\ p + j <= NumListing
  /\ \A i \in 0 .. (j - 1) : Site[p + i].next

(* ---------------------------------------------------------------------- *)
(* Init                                                                    *)
(* ---------------------------------------------------------------------- *)
(* ---------------------------------------------------------------------- *)
(* crawl_images: the candidate URL of one img element                      *)
(* ---------------------------------------------------------------------- *)
\* Strings are sequences of pieces; "," and " " are pieces of their own.
\* The url argument of crawl_images.
PageUrl == << "https:", "//wallspic.com", "/cn/album/", "anime" >>

\* Attribute values an img element may carry: the empty string, a rooted
\* path, an absolute URL.
PlainValues ==
  { <<>>,
    << "/previews/", "p.jpg" >>,
    << "https:", "//wallspic.com", "/previews/", "q.jpg" >> }

SrcsetValues == { <<>>, << "a.jpg", " ", "1x", ",", " ", "b.jpg", " ", "2x" >> }

\* img.get('data-src') or img.get('src') or ... : the operands, in order.
Preference ==
  << "data-src", "src", "data-original", "data-lazy-src", "data-lazy-load",
     "data-img", "srcset", "data-image" >>

AttrNames == { Preference[i] : i \in 1 .. Len(Preference) }

\* The img elements: each attribute is absent or has one of its values.
Imgs ==
  UNION { [ A -> PlainValues \cup SrcsetValues ] : A \in SUBSET AttrNames }

WellFormed(e) ==
  \A a \in DOMAIN e :
    e[a] \in (IF a = "srcset" THEN SrcsetValues ELSE PlainValues)

\* img.get(a): None and '' are both false in the or chain and in if img_url.
Get(e, a) == IF a \in DOMAIN e THEN e[a] ELSE <<>>

\* The first operand of the or chain, from the i-th on, that is true
\* (0: none).
RECURSIVE FirstTrue(_, _)
FirstTrue(e, i) ==
  IF i > Len(Preference) THEN 0
  ELSE IF Get(e, Preference[i]) # <<>> THEN i
  ELSE FirstTrue(e, i + 1)

Places(s, sep) == { i \in 1 .. Len(s) : s[i] = sep }

SetMax(S) == CHOOSE x \in S : \A y \in S : y <= x

SetMin(S) == CHOOSE x \in S : \A y \in S : x <= y

\* s.split(sep)[-1]
SplitLast(s, sep) ==
  IF Places(s, sep) = {} THEN s
  ELSE SubSeq(s, SetMax(Places(s, sep)) + 1, Len(s))

\* s.split(sep)[0]
SplitFirst(s, sep) ==
  IF Places(s, sep) = {} THEN s
  ELSE SubSeq(s, 1, SetMin(Places(s, sep)) - 1)

\* s.strip()
Strip(s) ==
  LET ink == { i \in 1 .. Len(s) : s[i] # " " }
  IN  IF ink = {} THEN <<>> ELSE SubSeq(s, SetMin(ink), SetMax(ink))

\* urllib.parse.urljoin(base, ref)
urljoin(base, ref) ==
  IF ref = <<>> THEN base
  ELSE IF ref[1] = "https:" THEN ref
  ELSE IF ref[1] \in {"/previews/", "/cn/album/"}
         THEN << base[1], base[2] >> \o ref
  ELSE SubSeq(base, 1, Len(base) - 1) \o ref

\* sub in s, for the two markers of line 122
Contains(s, sub) == \E i \in 1 .. Len(s) : s[i] = sub

ImgOff ==
  /\ xpc = "off"
  /\ img = <<>>
  /\ chosen = "none"
  /\ img_url = <<>>
  /\ kept = FALSE

\* image_downloader.main is not run.
FanOff ==
  /\ im_pc = "off"
  /\ im_page_num = 0
  /\ im_page_source = 0
  /\ im_attempt = 0
  /\ im_futures = <<>>
  /\ im_image_urls = <<>>
  /\ im_links = [returned |-> FALSE, value |-> <<>>]
  /\ im_submitted = <<>>
  /\ im_downloads = <<>>
  /\ downloaded_count = 0

\* Nothing of the downloader.py pipeline has run.
PipelineIdle ==
  /\ mpc = "validate"
  /\ dirExists = FALSE
  /\ summary = <<>>
  /\ detail_queue = <<>>
  /\ cpc = "idle"
  /\ page_num = 0
  /\ page_source = 0
  /\ toPut = {}
  /\ putLog = <<>>
  /\ fetchCalls = 0
  /\ fp_attempt = 0
  /\ cd_attempt = 0
  /\ open_drivers = 0
  /\ driverFaults = 0
  /\ fp_log = <<>>
  /\ fp_result = "none"
  /\ cdInCall = 0
  /\ wpc = [w \in 1 .. max_workers |-> "idle"]
  /\ detail_url = [w \in 1 .. max_workers |-> None]
  /\ actual_url = [w \in 1 .. max_workers |-> None]
  /\ attempts = [w \in 1 .. max_workers |-> 0]
  /\ httpFails = [w \in 1 .. max_workers |-> 0]
  /\ result = [w \in 1 .. max_workers |-> "none"]
  /\ chunkNo = [w \in 1 .. max_workers |-> 0]
  /\ file_lock = 0
  /\ fs = [f \in FileNames |-> NoFile]
  /\ getLog = <<>>
  /\ finished = 0
  /\ sentinels = [w \in 1 .. max_workers |-> 0]
  /\ tally = [written |-> 0, failed |-> 0]

\* link_fetcher.fetch_image_links is not run.
LinksOff ==
  /\ lpc = "off"
  /\ current_url = None
  /\ lf_attempt = 0
  /\ driver = "none"
  /\ futures = <<>>
  /\ image_urls = {}
  /\ lf_links = [returned |-> FALSE, value |-> {}]

\* python downloader.py: main has read its inputs.
Init ==
  /\ urlOk \in BOOLEAN
  /\ url \in 1 .. NumListing
  /\ max_workers \in PoolSizes
  /\ max_pages \in PageBudgets
  /\ PipelineIdle
  /\ LinksOff
  /\ ImgOff
  /\ FanOff

(* ---------------------------------------------------------------------- *)
(* main                                                                    *)
(* ---------------------------------------------------------------------- *)
\* The scheme check fails: print the error and return.
Reject ==
  /\ mpc = "validate"
  /\ ~urlOk
  /\ mpc' = "rejected"
  /\ UNCHANGED <<others, urlOk, url, max_workers, max_pages, dirExists, summary, detail_queue,
                 cvars, wvars>>

\* A main that goes on whatever the scheme check says.
ValidateAnyUrl ==
  /\ mpc = "validate"
  /\ mpc' = "start_workers"
  /\ dirExists' = TRUE
  /\ UNCHANGED <<others, urlOk, url, max_workers, max_pages, summary, detail_queue,
                 cvars, wvars>>

\* The scheme check passes: os.makedirs(save_dir), queue.Queue().
Validate ==
  /\ mpc = "validate"
  /\ urlOk
  /\ mpc' = "start_workers"
  /\ dirExists' = TRUE
  /\ UNCHANGED <<others, urlOk, url, max_workers, max_pages, summary, detail_queue,
                 cvars, wvars>>

\* start_downloaders: every worker thread is started; each blocks in get().
StartDownloaders ==
  /\ mpc = "start_workers"
  /\ mpc' = "start_crawler"
  /\ wpc' = [w \in Workers |-> "get"]
  /\ UNCHANGED <<others, urlOk, url, max_workers, max_pages, dirExists, summary, detail_queue,
                 cvars, detail_url, actual_url, attempts, httpFails, result,
                 chunkNo, file_lock, fs, getLog, finished, tally, sentinels>>

\* crawl_thread.start(): crawl_images begins with page_num = 1.
StartCrawler ==
  /\ mpc = "start_crawler"
  /\ mpc' = "join_crawl"
  /\ cpc' = "loop"
  /\ page_num' = 1
  /\ UNCHANGED <<others, urlOk, url, max_workers, max_pages, dirExists, summary, detail_queue,
                 page_source, toPut, putLog, fetchCalls, fvars, wvars>>

\* crawl_thread.join()
JoinCrawl ==
  /\ mpc = "join_crawl"
  /\ cpc = "done"
  /\ mpc' = "join_workers"
  /\ UNCHANGED <<others, urlOk, url, max_workers, max_pages, dirExists, summary, detail_queue,
                 cvars, wvars>>

\* for thread in download_threads: thread.join()
\* print(f"... {save_dir}"): the closing message names the directory only.
JoinWorkers ==
  /\ mpc = "join_workers"
  /\ \A w \in Workers : wpc[w] \in {"done", "crashed"}
  /\ mpc' = "done"
  /\ summary' = [save_dir |-> "images"]
  /\ UNCHANGED <<others, urlOk, url, max_workers, max_pages, dirExists, detail_queue,
                 cvars, wvars>>

Main ==
  \/ Reject
  \/ Validate
  \/ StartDownloaders
  \/ StartCrawler
  \/ JoinCrawl
  \/ JoinWorkers

(* ---------------------------------------------------------------------- *)
(* crawl_images, fetch_page, create_driver                                 *)
(* ---------------------------------------------------------------------- *)
\* A loop condition that lets one page too many through.
WithinBudgetOffByOne == page_num <= max_pages + 1

\* while page_num <= max_pages:
WithinBudget == page_num <= max_pages

\* The loop condition holds: page_source = fetch_page(url, ...)
CrawlLoop ==
  /\ cpc = "loop"
  /\ WithinBudget
  /\ cpc' = "create"
  /\ fetchCalls' = fetchCalls + 1
  /\ fp_attempt' = 1
  /\ cd_attempt' = 1
  /\ fp_log' = <<>>
  /\ fp_result' = "none"
  /\ cdInCall' = 0
  /\ driverFaults' = MaxDriverFaults
  /\ UNCHANGED <<others, mvars, detail_queue, page_num, page_source, toPut, putLog,
                 open_drivers, wvars>>

\* The loop condition is false, the loop ends.
CrawlBudgetEnd ==
  /\ cpc = "loop"
  /\ ~WithinBudget
  /\ cpc' = "finally"
  /\ UNCHANGED <<others, mvars, detail_queue, page_num, page_source, toPut, putLog,
                 fetchCalls, fvars, wvars>>

\* An attempt of fetch_page has raised: retrying runs the body again, or
\* lets the exception out, which crawl_images catches (line 147).
FetchAttemptRaised ==
  /\ fp_log' = Append(fp_log, "err")
  /\ IF ShouldRetry(TRUE, fp_attempt)
       THEN /\ fp_attempt' = fp_attempt + 1
            /\ cd_attempt' = 1
            /\ cpc' = "create"
            /\ UNCHANGED fp_result
       ELSE /\ fp_result' = "raised"
            /\ cpc' = "finally"
            /\ UNCHANGED <<fp_attempt, cd_attempt>>

\* The body of create_driver, called by fetch_page outside its try block,
\* returns a new session.
CreateDriver ==
  /\ cpc = "create"
  /\ cdInCall' = cdInCall + 1
  /\ open_drivers' = open_drivers + 1
  /\ cpc' = "load"
  /\ UNCHANGED <<others, mvars, detail_queue, page_num, page_source, toPut, putLog,
                 fetchCalls, fp_attempt, cd_attempt, driverFaults, fp_log,
                 fp_result, wvars>>

\* The body of create_driver raises: retrying runs it again, or lets the
\* exception out of create_driver and so out of this attempt of fetch_page.
CreateDriverFails ==
  /\ cpc = "create"
  /\ driverFaults > 0
  /\ driverFaults' = driverFaults - 1
  /\ cdInCall' = cdInCall + 1
  /\ IF ShouldRetry(TRUE, cd_attempt)
       THEN /\ cd_attempt' = cd_attempt + 1
            /\ UNCHANGED <<cpc, fp_attempt, fp_log, fp_result>>
       ELSE FetchAttemptRaised
  /\ UNCHANGED <<others, mvars, detail_queue, page_num, page_source, toPut, putLog,
                 fetchCalls, open_drivers, wvars>>

\* The try block of fetch_page runs through: load, scroll, click "next" j
\* times, return driver.page_source; finally driver.quit().
LoadPage ==
  /\ cpc = "load"
  /\ open_drivers' = open_drivers - 1
  /\ \E j \in 0 .. max_pages :
       /\ CanClick(url, j)
       /\ page_source' = url + j
  /\ fp_log' = Append(fp_log, "ok")
  /\ fp_result' = "html"
  /\ cpc' = "parse"
  /\ UNCHANGED <<others, mvars, detail_queue, page_num, toPut, putLog, fetchCalls,
                 fp_attempt, cd_attempt, driverFaults, cdInCall, wvars>>

\* The try block of fetch_page raises (load or scroll): except ... raise;
\* finally driver.quit().
LoadPageFails ==
  /\ cpc = "load"
  /\ driverFaults > 0
  /\ driverFaults' = driverFaults - 1
  /\ open_drivers' = open_drivers - 1
  /\ FetchAttemptRaised
  /\ UNCHANGED <<others, mvars, detail_queue, page_num, page_source, toPut, putLog,
                 fetchCalls, cdInCall, wvars>>

\* The bookkeeping of a fetch_page call is dropped once the call is over and
\* crawl_images has gone on.
CallForgotten ==
  /\ fp_attempt' = 0
  /\ cd_attempt' = 0
  /\ driverFaults' = 0
  /\ fp_log' = <<>>
  /\ fp_result' = "none"
  /\ cdInCall' = 0

\* detail_urls = set() ... if not detail_urls: break
ParsePage ==
  /\ cpc = "parse"
  /\ toPut' = Site[page_source].links
  /\ cpc' = IF Site[page_source].links = {} THEN "finally" ELSE "put"
  /\ CallForgotten
  /\ UNCHANGED <<others, mvars, detail_queue, page_num, page_source, putLog,
                 fetchCalls, open_drivers, wvars>>

\* A put loop that leaves after its first put.
PutDetailOnce ==
  /\ cpc = "put"
  /\ \E u \in toPut :
       /\ detail_queue' = Append(detail_queue, u)
       /\ putLog' = Append(putLog, u)
       /\ toPut' = toPut \ {u}
       /\ cpc' = "next"
  /\ UNCHANGED <<others, mvars, page_num, page_source, fetchCalls, fvars, wvars>>

\* for detail_url in detail_urls: detail_queue.put(detail_url)
PutDetail ==
  /\ cpc = "put"
  /\ \E u \in toPut :
       /\ detail_queue' = Append(detail_queue, u)
       /\ putLog' = Append(putLog, u)
       /\ toPut' = toPut \ {u}
       /\ cpc' = IF toPut \ {u} = {} THEN "next" ELSE "put"
  /\ UNCHANGED <<others, mvars, page_num, page_source, fetchCalls, fvars, wvars>>

\* next_page = soup.find(...); if not next_page: break; page_num += 1
NextPage ==
  /\ cpc = "next"
  /\ IF Site[page_source].next
       THEN /\ page_num' = page_num + 1
            /\ cpc' = "loop"
       ELSE /\ cpc' = "finally"
            /\ UNCHANGED page_num
  /\ UNCHANGED <<others, mvars, detail_queue, page_source, toPut, putLog, fetchCalls,
                 fvars, wvars>>

\* A crawl_images that puts the sentinel after the loop, not in a finally.
CrawlPutAfterLoop ==
  /\ cpc = "finally"
  /\ detail_queue' = IF fp_result = "raised" THEN detail_queue
                                             ELSE Append(detail_queue, None)
  /\ cpc' = "done"
  /\ CallForgotten
  /\ UNCHANGED <<others, mvars, page_num, page_source, toPut, putLog, fetchCalls,
                 open_drivers, wvars>>

\* finally: detail_queue.put(None)
CrawlFinally ==
  /\ cpc = "finally"
  /\ detail_queue' = Append(detail_queue, None)
  /\ cpc' = "done"
  /\ CallForgotten
  /\ UNCHANGED <<others, mvars, page_num, page_source, toPut, putLog, fetchCalls,
                 open_drivers, wvars>>

Crawler ==
  \/ CrawlLoop
  \/ CrawlBudgetEnd
  \/ CreateDriver
  \/ CreateDriverFails
  \/ LoadPage
  \/ LoadPageFails
  \/ ParsePage
  \/ PutDetail
  \/ NextPage
  \/ CrawlFinally

(* ---------------------------------------------------------------------- *)
(* download_worker, fetch_detail_page, download_image                      *)
(* ---------------------------------------------------------------------- *)
\* except Exception: ... return None   (fetch_detail_page, lines 73-75)
FetchDetailExcept == [raised |-> FALSE, value |-> None]

\* The try block of fetch_detail_page for detail page d, given whether the
\* GET and raise_for_status went through.
fetch_detail_page(d, reqOk) ==
  IF reqOk THEN [raised |-> FALSE, value |-> Button[d]]
           ELSE FetchDetailExcept

\* A download_image whose except clause lets the exception out.
DownloadImageRaises == [raised |-> TRUE, value |-> "False"]

\* except Exception: ... return False   (download_image, lines 42-44)
DownloadImageExcept == [raised |-> FALSE, value |-> "False"]

\* A test that lets None through.
TruthyAlways(v) == TRUE

\* if actual_url:
Truthy(v) == v # None

\* A get() that hands out the head of the queue without removing it.
WorkerPeek(w) ==
  /\ wpc[w] = "get"
  /\ detail_queue # <<>>
  /\ Head(detail_queue) # None
  /\ UNCHANGED detail_queue
  /\ wpc' = [wpc EXCEPT ![w] = "resolve"]
  /\ detail_url' = [detail_url EXCEPT ![w] = Head(detail_queue)]
  /\ getLog' = Append(getLog, Head(detail_queue))
  /\ \E f \in 0 .. MaxHttpFails : httpFails' = [httpFails EXCEPT ![w] = f]
  /\ UNCHANGED <<others, mvars, cvars, actual_url, attempts, result, chunkNo,
                 file_lock, fs, finished, tally, sentinels>>

\* detail_url = detail_queue.get() returns a detail URL.
WorkerGet(w) ==
  /\ wpc[w] = "get"
  /\ detail_queue # <<>>
  /\ Head(detail_queue) # None
  /\ detail_queue' = Tail(detail_queue)
  /\ wpc' = [wpc EXCEPT ![w] = "resolve"]
  /\ detail_url' = [detail_url EXCEPT ![w] = Head(detail_queue)]
  /\ getLog' = Append(getLog, Head(detail_queue))
  /\ \E f \in 0 .. MaxHttpFails : httpFails' = [httpFails EXCEPT ![w] = f]
  /\ UNCHANGED <<others, mvars, cvars, actual_url, attempts, result, chunkNo,
                 file_lock, fs, finished, tally, sentinels>>

\* A get() that sees the sentinel and leaves it in the queue.
WorkerSeesNone(w) ==
  /\ wpc[w] = "get"
  /\ detail_queue # <<>>
  /\ Head(detail_queue) = None
  /\ UNCHANGED detail_queue
  /\ wpc' = [wpc EXCEPT ![w] = "reput"]
  /\ sentinels' = [sentinels EXCEPT ![w] = @ + 1]
  /\ UNCHANGED <<others, mvars, cvars, detail_url, actual_url, attempts, httpFails,
                 result, chunkNo, file_lock, fs, getLog, finished, tally>>

\* detail_url = detail_queue.get() returns None.
WorkerGetNone(w) ==
  /\ wpc[w] = "get"
  /\ detail_queue # <<>>
  /\ Head(detail_queue) = None
  /\ detail_queue' = Tail(detail_queue)
  /\ wpc' = [wpc EXCEPT ![w] = "reput"]
  /\ sentinels' = [sentinels EXCEPT ![w] = @ + 1]
  /\ UNCHANGED <<others, mvars, cvars, detail_url, actual_url, attempts, httpFails,
                 result, chunkNo, file_lock, fs, getLog, finished, tally>>

\* A worker that breaks without handing the sentinel on.
WorkerBreakOnly(w) ==
  /\ wpc[w] = "reput"
  /\ wpc' = [wpc EXCEPT ![w] = "done"]
  /\ UNCHANGED <<others, mvars, detail_queue, cvars, detail_url, actual_url, attempts,
                 httpFails, result, chunkNo, file_lock, fs, getLog, finished, tally,
                 sentinels>>

\* A worker that hands the sentinel on twice.
WorkerReputTwice(w) ==
  /\ wpc[w] = "reput"
  /\ detail_queue' = Append(Append(detail_queue, None), None)
  /\ wpc' = [wpc EXCEPT ![w] = "done"]
  /\ UNCHANGED <<others, mvars, cvars, detail_url, actual_url, attempts, httpFails,
                 result, chunkNo, file_lock, fs, getLog, finished, tally, sentinels>>

\* detail_queue.put(None); break
WorkerReput(w) ==
  /\ wpc[w] = "reput"
  /\ detail_queue' = Append(detail_queue, None)
  /\ wpc' = [wpc EXCEPT ![w] = "done"]
  /\ UNCHANGED <<others, mvars, cvars, detail_url, actual_url, attempts, httpFails,
                 result, chunkNo, file_lock, fs, getLog, finished, tally, sentinels>>

\* One run of the body of fetch_detail_page under retrying.
ResolveAttempt(w) ==
  /\ wpc[w] = "resolve"
  /\ attempts' = [attempts EXCEPT ![w] = @ + 1]
  /\ LET out == fetch_detail_page(detail_url[w], attempts[w] + 1 > httpFails[w])
     IN  IF ShouldRetry(out.raised, attempts[w] + 1)
           THEN UNCHANGED <<wpc, actual_url, httpFails, tally>>
           ELSE /\ wpc' = [wpc EXCEPT ![w] = IF out.raised THEN "crashed"
                                                          ELSE "resolved"]
                /\ actual_url' = [actual_url EXCEPT ![w] = out.value]
                /\ httpFails' = [httpFails EXCEPT ![w] = 0]
                /\ tally' = IF out = FetchDetailExcept
                              THEN [tally EXCEPT !.failed = @ + 1]
                              ELSE tally
  /\ UNCHANGED <<others, mvars, detail_queue, cvars, detail_url, result, chunkNo,
                 file_lock, fs, getLog, finished, sentinels>>

\* if actual_url: download_image(actual_url, save_dir)
WorkerDownload(w) ==
  /\ wpc[w] = "resolved"
  /\ Truthy(actual_url[w])
  /\ wpc' = [wpc EXCEPT ![w] = "download"]
  /\ attempts' = [attempts EXCEPT ![w] = 0]
  /\ \E f \in 0 .. MaxHttpFails : httpFails' = [httpFails EXCEPT ![w] = f]
  /\ UNCHANGED <<others, mvars, detail_queue, cvars, detail_url, actual_url, result,
                 chunkNo, file_lock, fs, getLog, finished, tally, sentinels>>

\* if actual_url: is false, the loop body is over, back to get().
WorkerSkip(w) ==
  /\ wpc[w] = "resolved"
  /\ ~Truthy(actual_url[w])
  /\ wpc' = [wpc EXCEPT ![w] = "get"]
  /\ finished' = finished + 1
  /\ detail_url' = [detail_url EXCEPT ![w] = None]
  /\ actual_url' = [actual_url EXCEPT ![w] = None]
  /\ attempts' = [attempts EXCEPT ![w] = 0]
  /\ UNCHANGED <<others, mvars, detail_queue, cvars, httpFails, result, chunkNo,
                 file_lock, fs, getLog, sentinels, tally>>

\* The running attempt of download_image, attempt number n, ends with
\* outcome out: retrying runs the body again or the call returns.
DownloadEnds(w, n, out) ==
  IF ShouldRetry(out.raised, n)
    THEN /\ wpc' = [wpc EXCEPT ![w] = "download"]
         /\ UNCHANGED <<result, httpFails>>
    ELSE /\ wpc' = [wpc EXCEPT ![w] = IF out.raised THEN "crashed"
                                                   ELSE "returned"]
         /\ result' = [result EXCEPT ![w] = out.value]
         /\ httpFails' = [httpFails EXCEPT ![w] = 0]

\* requests.get(url, stream=True); response.raise_for_status() go through.
DownloadRequest(w) ==
  /\ wpc[w] = "download"
  /\ attempts[w] + 1 > httpFails[w]
  /\ attempts' = [attempts EXCEPT ![w] = @ + 1]
  /\ wpc' = [wpc EXCEPT ![w] = "lock"]
  /\ UNCHANGED <<others, mvars, detail_queue, cvars, detail_url, actual_url, httpFails,
                 result, chunkNo, file_lock, fs, getLog, finished, tally, sentinels>>

\* requests.get or raise_for_status raises.
DownloadRequestFails(w) ==
  /\ wpc[w] = "download"
  /\ attempts[w] + 1 <= httpFails[w]
  /\ attempts' = [attempts EXCEPT ![w] = @ + 1]
  /\ DownloadEnds(w, attempts[w] + 1, DownloadImageExcept)
  /\ UNCHANGED <<others, mvars, detail_queue, cvars, detail_url, actual_url, chunkNo,
                 file_lock, fs, getLog, finished, tally, sentinels>>

\* Opening the file without waiting for file_lock.
OpenWithoutLock(w) ==
  /\ wpc[w] = "lock"
  /\ file_lock' = w
  /\ fs' = [fs EXCEPT ![FileName(actual_url[w])] =
              [exists |-> TRUE, data |-> <<>>, src |-> actual_url[w]]]
  /\ wpc' = [wpc EXCEPT ![w] = "write"]
  /\ UNCHANGED <<others, mvars, detail_queue, cvars, detail_url, actual_url, attempts,
                 httpFails, result, chunkNo, getLog, finished, tally, sentinels>>

\* with file_lock: with open(file_path, 'wb') as f:  The lock is taken when
\* free; open creates or truncates the file.
LockAndOpen(w) ==
  /\ wpc[w] = "lock"
  /\ file_lock = 0
  /\ file_lock' = w
  /\ fs' = [fs EXCEPT ![FileName(actual_url[w])] =
              [exists |-> TRUE, data |-> <<>>, src |-> actual_url[w]]]
  /\ wpc' = [wpc EXCEPT ![w] = "write"]
  /\ UNCHANGED <<others, mvars, detail_queue, cvars, detail_url, actual_url, attempts,
                 httpFails, result, chunkNo, getLog, finished, tally, sentinels>>

\* for chunk in response.iter_content(...): f.write(chunk)
WriteChunk(w) ==
  /\ wpc[w] = "write"
  /\ chunkNo[w] < Len(BodyOf(actual_url[w]))
  /\ fs' = [fs EXCEPT ![FileName(actual_url[w])].data =
              Append(@, BodyOf(actual_url[w])[chunkNo[w] + 1])]
  /\ chunkNo' = [chunkNo EXCEPT ![w] = @ + 1]
  /\ UNCHANGED <<others, mvars, detail_queue, cvars, wpc, detail_url, actual_url,
                 attempts, httpFails, result, file_lock, getLog, finished, tally,
                 sentinels>>

\* iter_content or f.write raises part-way: the with blocks close the file
\* and release the lock, the except clause returns False.
WriteFails(w) ==
  /\ wpc[w] = "write"
  /\ chunkNo[w] < Len(BodyOf(actual_url[w]))
  /\ file_lock' = 0
  /\ chunkNo' = [chunkNo EXCEPT ![w] = 0]
  /\ DownloadEnds(w, attempts[w], DownloadImageExcept)
  /\ UNCHANGED <<others, mvars, detail_queue, cvars, detail_url, actual_url, attempts,
                 fs, getLog, finished, tally, sentinels>>

\* The stream is exhausted: the file is closed, the lock released, return True.
CloseFile(w) ==
  /\ wpc[w] = "write"
  /\ chunkNo[w] = Len(BodyOf(actual_url[w]))
  /\ file_lock' = 0
  /\ chunkNo' = [chunkNo EXCEPT ![w] = 0]
  /\ DownloadEnds(w, attempts[w], [raised |-> FALSE, value |-> "True"])
  /\ UNCHANGED <<others, mvars, detail_queue, cvars, detail_url, actual_url, attempts,
                 fs, getLog, finished, tally, sentinels>>

\* download_image has returned: the loop body is over, back to get().
WorkerLoop(w) ==
  /\ wpc[w] = "returned"
  /\ wpc' = [wpc EXCEPT ![w] = "get"]
  /\ finished' = finished + 1
  /\ detail_url' = [detail_url EXCEPT ![w] = None]
  /\ actual_url' = [actual_url EXCEPT ![w] = None]
  /\ attempts' = [attempts EXCEPT ![w] = 0]
  /\ result' = [result EXCEPT ![w] = "none"]
  /\ tally' = IF result[w] = "True" THEN [tally EXCEPT !.written = @ + 1]
                                    ELSE [tally EXCEPT !.failed = @ + 1]
  /\ UNCHANGED <<others, mvars, detail_queue, cvars, httpFails, chunkNo, file_lock, fs,
                 getLog, sentinels>>

Worker(w) ==
  \/ WorkerGet(w)
  \/ WorkerGetNone(w)
  \/ WorkerReput(w)
  \/ ResolveAttempt(w)
  \/ WorkerDownload(w)
  \/ WorkerSkip(w)
  \/ DownloadRequest(w)
  \/ DownloadRequestFails(w)
  \/ LockAndOpen(w)
  \/ WriteChunk(w)
  \/ WriteFails(w)
  \/ CloseFile(w)
  \/ WorkerLoop(w)

Next ==
  \/ Main
  \/ Crawler
  \/ \E w \in Workers : Worker(w)

Spec == Init /\ [][Next]_vars

\* Some runnable thread always gets to run.
FairSpec == Spec /\ WF_vars(Next)

TypeOK ==
  /\ mpc \in {"validate", "rejected", "start_workers", "start_crawler",
              "join_crawl", "join_workers", "done"}
  /\ cpc \in {"idle", "loop", "create", "load", "parse", "put", "next",
              "finally", "done"}
  /\ \A w \in Workers :
       wpc[w] \in {"idle", "get", "reput", "done", "resolve", "resolved",
                   "download", "lock", "write", "returned", "crashed"}
  /\ file_lock \in 0 .. max_workers
  /\ open_drivers \in 0 .. 1

(* ---------------------------------------------------------------------- *)
(* link_fetcher.py: fetch_image_links, fetch_detail_page                   *)
(* ---------------------------------------------------------------------- *)
\* python link_fetcher.py: fetch_image_links(url, max_workers) is called.
InitLinks ==
  /\ urlOk = TRUE
  /\ url \in 1 .. NumListing
  /\ max_workers \in PoolSizes
  /\ max_pages = 1
  /\ PipelineIdle
  /\ lpc = "begin"
  /\ current_url = None
  /\ lf_attempt = 0
  /\ driver = "none"
  /\ futures = <<>>
  /\ image_urls = {}
  /\ lf_links = [returned |-> FALSE, value |-> {}]
  /\ ImgOff
  /\ FanOff

\* except Exception as e: print(...); return []   (fetch_image_links)
\* The handler does not touch driver.
LinksExcept ==
  /\ lpc' = "returned"
  /\ lf_links' = [returned |-> TRUE, value |-> {}]
  /\ UNCHANGED driver

\* driver = webdriver.Chrome(...); image_urls = set(); current_url = url
LinksChrome ==
  /\ lpc = "begin"
  /\ driver' = "open"
  /\ current_url' = url
  /\ lpc' = "fetch"
  /\ UNCHANGED <<pipeline, imgvars, fanvars, lf_attempt, futures, image_urls, lf_links>>

\* webdriver.Chrome(...) raises: no session was created.
LinksChromeFails ==
  /\ lpc = "begin"
  /\ LinksExcept
  /\ UNCHANGED <<pipeline, imgvars, fanvars, current_url, lf_attempt, futures, image_urls>>

\* A task of the executor that has not run yet.
Submitted == [pc |-> "queued", attempt |-> 0, session |-> FALSE, value |-> None]

\* page_source = fetch_page_with_driver(driver, current_url) returns; the
\* detail links are extracted and one fetch_detail_page task is submitted
\* for each.
LinksFetch ==
  /\ lpc = "fetch"
  /\ current_url # None
  /\ futures' = [d \in Site[current_url].links |-> Submitted]
  /\ lf_attempt' = 0
  /\ lpc' = "tasks"
  /\ UNCHANGED <<pipeline, imgvars, fanvars, current_url, driver, image_urls, lf_links>>

\* driver.get raises inside fetch_page_with_driver: retrying runs it again,
\* and lets the third failure out to the except clause of fetch_image_links.
LinksFetchFails ==
  /\ lpc = "fetch"
  /\ current_url # None
  /\ IF ShouldRetry(TRUE, lf_attempt + 1)
       THEN /\ lf_attempt' = lf_attempt + 1
            /\ UNCHANGED <<lpc, lf_links, driver>>
       ELSE /\ lf_attempt' = 0
            /\ LinksExcept
  /\ UNCHANGED <<pipeline, imgvars, fanvars, current_url, futures, image_urls>>

\* The tasks a pool thread is running.
Running == { d \in DOMAIN futures : futures[d].pc = "fetch" }

\* fetch_detail_page: driver = webdriver.Chrome(...) inside the try.
TaskChrome(d) ==
  /\ lpc = "tasks"
  /\ futures[d].pc = "queued"
  /\ Cardinality(Running) < max_workers
  /\ futures' = [futures EXCEPT ![d].pc = "fetch", ![d].session = TRUE]
  /\ UNCHANGED <<pipeline, imgvars, fanvars, lpc, current_url, lf_attempt, driver, image_urls,
                 lf_links>>

\* webdriver.Chrome(...) raises in fetch_detail_page: the except clause calls
\* driver.quit() on a name that was never bound, and that error leaves the
\* function.
TaskChromeFails(d) ==
  /\ lpc = "tasks"
  /\ futures[d].pc = "queued"
  /\ Cardinality(Running) < max_workers
  /\ futures' = [futures EXCEPT ![d].pc = "raised"]
  /\ UNCHANGED <<pipeline, imgvars, fanvars, lpc, current_url, lf_attempt, driver, image_urls,
                 lf_links>>

\* fetch_page_with_driver(driver, detail_url) returns: the button is looked
\* up, driver.quit(), return actual_url or None.
TaskFetch(d) ==
  /\ lpc = "tasks"
  /\ futures[d].pc = "fetch"
  /\ futures' = [futures EXCEPT ![d] = [pc |-> "done", attempt |-> 0,
                                       session |-> FALSE, value |-> Button[d]]]
  /\ UNCHANGED <<pipeline, imgvars, fanvars, lpc, current_url, lf_attempt, driver, image_urls,
                 lf_links>>

\* fetch_page_with_driver raises: retried, and after the third failure the
\* except clause of fetch_detail_page quits the session and returns None.
TaskFetchFails(d) ==
  /\ lpc = "tasks"
  /\ futures[d].pc = "fetch"
  /\ futures' = IF ShouldRetry(TRUE, futures[d].attempt + 1)
                  THEN [futures EXCEPT ![d].attempt = @ + 1]
                  ELSE [futures EXCEPT ![d] = [pc |-> "done", attempt |-> 0,
                                              session |-> FALSE, value |-> None]]
  /\ UNCHANGED <<pipeline, imgvars, fanvars, lpc, current_url, lf_attempt, driver, image_urls,
                 lf_links>>

\* The with block of the executor is left when every task has ended.
TasksOver == \A d \in DOMAIN futures : futures[d].pc \in {"done", "raised"}

\* for future in futures: actual_url = future.result(); if actual_url: add
LinksCollect ==
  /\ lpc = "tasks"
  /\ TasksOver
  /\ \A d \in DOMAIN futures : futures[d].pc = "done"
  /\ image_urls' = image_urls \cup
                     { futures[d].value : d \in { e \in DOMAIN futures :
                                                   Truthy(futures[e].value) } }
  /\ futures' = <<>>
  /\ lpc' = "next"
  /\ UNCHANGED <<pipeline, imgvars, fanvars, current_url, lf_attempt, driver, lf_links>>

\* future.result() re-raises the error of a task: the except clause of
\* fetch_image_links returns [].
LinksCollectRaises ==
  /\ lpc = "tasks"
  /\ TasksOver
  /\ \E d \in DOMAIN futures : futures[d].pc = "raised"
  /\ futures' = <<>>
  /\ LinksExcept
  /\ UNCHANGED <<pipeline, imgvars, fanvars, current_url, lf_attempt, image_urls>>

\* if next_page and next_page.get('href'): current_url = urljoin(...)
\* else: current_url = None
LinksNext ==
  /\ lpc = "next"
  /\ current_url' = IF Site[current_url].next THEN current_url + 1 ELSE None
  /\ lpc' = "fetch"
  /\ UNCHANGED <<pipeline, imgvars, fanvars, lf_attempt, driver, futures, image_urls, lf_links>>

\* while current_url is over: driver.quit(); return list(image_urls)
LinksReturn ==
  /\ lpc = "fetch"
  /\ current_url = None
  /\ driver' = "quit"
  /\ lpc' = "returned"
  /\ lf_links' = [returned |-> TRUE, value |-> image_urls]
  /\ UNCHANGED <<pipeline, imgvars, fanvars, current_url, lf_attempt, futures, image_urls>>

NextLinks ==
  \/ LinksChrome
  \/ LinksChromeFails
  \/ LinksFetch
  \/ LinksFetchFails
  \/ \E d \in DOMAIN futures :
       \/ TaskChrome(d)
       \/ TaskChromeFails(d)
       \/ TaskFetch(d)
       \/ TaskFetchFails(d)
  \/ LinksCollect
  \/ LinksCollectRaises
  \/ LinksNext
  \/ LinksReturn

SpecLinks == InitLinks /\ [][NextLinks]_vars

(* ---------------------------------------------------------------------- *)
(* crawl_images: link extraction applied to one img element                *)
(* ---------------------------------------------------------------------- *)
\* One img element of a listing page is about to be looked at.
InitImg ==
  /\ urlOk = TRUE
  /\ url = 1
  /\ max_workers = 1
  /\ max_pages = 1
  /\ PipelineIdle
  /\ LinksOff
  /\ FanOff
  /\ xpc = "img"
  /\ img \in { e \in Imgs : WellFormed(e) }
  /\ chosen = "none"
  /\ img_url = <<>>
  /\ kept = FALSE

\* Lines 118-122: the or chain, the srcset handling, the marker check.
ExtractImg ==
  /\ xpc = "img"
  /\ FirstTrue(img, 1) # 0
  /\ LET a == Preference[FirstTrue(img, 1)]
         v == IF "srcset" \in DOMAIN img
                THEN urljoin(PageUrl,
                             SplitFirst(Strip(SplitLast(img[a], ",")), " "))
                ELSE img[a]
     IN  /\ chosen' = a
         /\ img_url' = v
         /\ kept' = (Contains(v, "//wallspic.com") /\ Contains(v, "/previews/"))
  /\ xpc' = "done"
  /\ UNCHANGED <<pipeline, linkvars, fanvars, img>>

\* if img_url: is false, the element is passed over.
SkipImg ==
  /\ xpc = "img"
  /\ FirstTrue(img, 1) = 0
  /\ xpc' = "done"
  /\ UNCHANGED <<pipeline, linkvars, fanvars, img, chosen, img_url, kept>>

NextImg == ExtractImg \/ SkipImg

SpecImg == InitImg /\ [][NextImg]_vars

(* ---------------------------------------------------------------------- *)
(* image_downloader.py: main, fetch_image_links, fetch_detail_page         *)
(* ---------------------------------------------------------------------- *)
\* The elements of a list.
Range(s) == { s[i] : i \in 1 .. Len(s) }

\* image_urls.add(x): image_urls is a set, kept here in insertion order.
AddToSet(s, x) == IF x \in Range(s) THEN s ELSE Append(s, x)

\* for future in futures: if actual_url: image_urls.add(actual_url), over
\* the tasks of detail pages d, d + 1, ...
RECURSIVE AddResults(_, _, _)
AddResults(s, tasks, d) ==
  IF d > 3 THEN s
  ELSE IF d \in DOMAIN tasks /\ tasks[d].pc = "done" /\ Truthy(tasks[d].value)
         THEN AddResults(AddToSet(s, tasks[d].value), tasks, d + 1)
  ELSE AddResults(s, tasks, d + 1)

\* python image_downloader.py: main has read its inputs.
InitFan ==
  /\ urlOk \in BOOLEAN
  /\ url \in 1 .. NumListing
  /\ max_workers \in PoolSizes
  /\ max_pages \in PageBudgets
  /\ PipelineIdle
  /\ LinksOff
  /\ ImgOff
  /\ im_pc = "validate"
  /\ im_page_num = 0
  /\ im_page_source = 0
  /\ im_attempt = 0
  /\ im_futures = <<>>
  /\ im_image_urls = <<>>
  /\ im_links = [returned |-> FALSE, value |-> <<>>]
  /\ im_submitted = <<>>
  /\ im_downloads = <<>>
  /\ downloaded_count = 0

\* The scheme check of main fails: print the error and return.
FanReject ==
  /\ im_pc = "validate"
  /\ ~urlOk
  /\ im_pc' = "rejected"
  /\ UNCHANGED <<pipeline, linkvars, imgvars, im_page_num, im_page_source,
                 im_attempt, im_futures, im_image_urls, im_links, im_submitted,
                 im_downloads, downloaded_count>>

\* main calls fetch_image_links: image_urls = set(); page_num = 1
FanStart ==
  /\ im_pc = "validate"
  /\ urlOk
  /\ im_pc' = "loop"
  /\ im_page_num' = 1
  /\ UNCHANGED <<pipeline, linkvars, imgvars, im_page_source, im_attempt,
                 im_futures, im_image_urls, im_links, im_submitted,
                 im_downloads, downloaded_count>>

\* return list(image_urls)
FanReturn ==
  /\ im_pc' = "returned"
  /\ im_links' = [returned |-> TRUE, value |-> im_image_urls]

\* except Exception as e: print(...); return []   (fetch_image_links)
FanExcept ==
  /\ im_pc' = "returned"
  /\ im_links' = [returned |-> TRUE, value |-> <<>>]

\* while page_num <= max_pages: the body is entered.
FanLoop ==
  /\ im_pc = "loop"
  /\ im_page_num <= max_pages
  /\ im_pc' = "fetch"
  /\ UNCHANGED <<pipeline, linkvars, imgvars, im_page_num, im_page_source,
                 im_attempt, im_futures, im_image_urls, im_links, im_submitted,
                 im_downloads, downloaded_count>>

\* while page_num <= max_pages: is over.
FanLoopEnd ==
  /\ im_pc = "loop"
  /\ im_page_num > max_pages
  /\ FanReturn
  /\ UNCHANGED <<pipeline, linkvars, imgvars, im_page_num, im_page_source,
                 im_attempt, im_futures, im_image_urls, im_submitted,
                 im_downloads, downloaded_count>>

\* A fetch_detail_page task that has not run yet.
FanSubmitted == [pc |-> "queued", attempt |-> 0, value |-> None]

\* fetch_page_with_driver(url, ...) returns a page with detail links: one
\* fetch_detail_page task is submitted for each.
FanFetch ==
  /\ im_pc = "fetch"
  /\ \E j \in 0 .. max_pages :
       /\ CanClick(url, j)
       /\ Site[url + j].links # {}
       /\ im_page_source' = url + j
       /\ im_futures' = [d \in Site[url + j].links |-> FanSubmitted]
  /\ im_attempt' = 0
  /\ im_pc' = "tasks"
  /\ UNCHANGED <<pipeline, linkvars, imgvars, im_page_num, im_image_urls,
                 im_links, im_submitted, im_downloads, downloaded_count>>

\* fetch_page_with_driver returns a page without detail links: break.
FanFetchEmpty ==
  /\ im_pc = "fetch"
  /\ \E j \in 0 .. max_pages :
       /\ CanClick(url, j)
       /\ Site[url + j].links = {}
       /\ im_page_source' = url + j
  /\ im_attempt' = 0
  /\ FanReturn
  /\ UNCHANGED <<pipeline, linkvars, imgvars, im_page_num, im_futures,
                 im_image_urls, im_submitted, im_downloads, downloaded_count>>

\* fetch_page_with_driver raises: retrying runs it again, and lets the third
\* failure out to the except clause of fetch_image_links.
FanFetchFails ==
  /\ im_pc = "fetch"
  /\ IF ShouldRetry(TRUE, im_attempt + 1)
       THEN /\ im_attempt' = im_attempt + 1
            /\ UNCHANGED <<im_pc, im_links>>
       ELSE /\ im_attempt' = 0
            /\ FanExcept
  /\ UNCHANGED <<pipeline, linkvars, imgvars, im_page_num, im_page_source,
                 im_futures, im_image_urls, im_submitted, im_downloads,
                 downloaded_count>>

\* The fetch_detail_page tasks a pool thread is running.
FanRunning == { d \in DOMAIN im_futures : im_futures[d].pc = "running" }

\* A pool thread takes the task for detail page d.
FanTaskRun(d) ==
  /\ im_pc = "tasks"
  /\ im_futures[d].pc = "queued"
  /\ Cardinality(FanRunning) < max_workers
  /\ im_futures' = [im_futures EXCEPT ![d].pc = "running"]
  /\ UNCHANGED <<pipeline, linkvars, imgvars, im_pc, im_page_num,
                 im_page_source, im_attempt, im_image_urls, im_links,
                 im_submitted, im_downloads, downloaded_count>>

\* fetch_detail_page returns: the href of the button, or None when there is
\* no button or when fetch_page_with_driver failed (except ... return None).
FanTaskDone(d) ==
  /\ im_pc = "tasks"
  /\ im_futures[d].pc = "running"
  /\ \E v \in {Button[d], None} :
       im_futures' = [im_futures EXCEPT ![d] =
                        [pc |-> "done", attempt |-> 0, value |-> v]]
  /\ UNCHANGED <<pipeline, linkvars, imgvars, im_pc, im_page_num,
                 im_page_source, im_attempt, im_image_urls, im_links,
                 im_submitted, im_downloads, downloaded_count>>

\* create_driver() raises at line 150, outside the try of fetch_detail_page:
\* retrying runs fetch_detail_page again, the third failure ends the task
\* with the exception.
FanTaskRaises(d) ==
  /\ im_pc = "tasks"
  /\ im_futures[d].pc = "running"
  /\ im_futures' = IF ShouldRetry(TRUE, im_futures[d].attempt + 1)
                     THEN [im_futures EXCEPT ![d].attempt = @ + 1]
                     ELSE [im_futures EXCEPT ![d].pc = "raised",
                                             ![d].attempt = 0]
  /\ UNCHANGED <<pipeline, linkvars, imgvars, im_pc, im_page_num,
                 im_page_source, im_attempt, im_image_urls, im_links,
                 im_submitted, im_downloads, downloaded_count>>

\* The with block of the executor is left when every task has ended.
FanTasksOver ==
  \A d \in DOMAIN im_futures : im_futures[d].pc \in {"done", "raised"}

\* for future in futures: actual_url = future.result(); if actual_url: add
FanCollect ==
  /\ im_pc = "tasks"
  /\ FanTasksOver
  /\ \A d \in DOMAIN im_futures : im_futures[d].pc = "done"
  /\ im_image_urls' = AddResults(im_image_urls, im_futures, 1)
  /\ im_pc' = "next"
  /\ UNCHANGED <<pipeline, linkvars, imgvars, im_page_num, im_page_source,
                 im_attempt, im_futures, im_links, im_submitted, im_downloads,
                 downloaded_count>>

\* future.result() re-raises the error of a task: the except clause of
\* fetch_image_links returns [].
FanCollectRaises ==
  /\ im_pc = "tasks"
  /\ FanTasksOver
  /\ \E d \in DOMAIN im_futures : im_futures[d].pc = "raised"
  /\ FanExcept
  /\ UNCHANGED <<pipeline, linkvars, imgvars, im_page_num, im_page_source,
                 im_attempt, im_futures, im_image_urls, im_submitted,
                 im_downloads, downloaded_count>>

\* if not next_page: break, else page_num += 1
FanNext ==
  /\ im_pc = "next"
  /\ IF Site[im_page_source].next
       THEN /\ im_page_num' = im_page_num + 1
            /\ im_pc' = "loop"
            /\ UNCHANGED im_links
       ELSE /\ FanReturn
            /\ UNCHANGED im_page_num
  /\ UNCHANGED <<pipeline, linkvars, imgvars, im_page_source, im_attempt,
                 im_futures, im_image_urls, im_submitted, im_downloads,
                 downloaded_count>>

\* if not image_urls: print(...); return   (main)
FanNothing ==
  /\ im_pc = "returned"
  /\ im_links.value = <<>>
  /\ im_pc' = "done"
  /\ UNCHANGED <<pipeline, linkvars, imgvars, im_page_num, im_page_source,
                 im_attempt, im_futures, im_image_urls, im_links, im_submitted,
                 im_downloads, downloaded_count>>

\* futures = [executor.submit(download_image, url, save_dir) for url in image_urls]
FanSubmit ==
  /\ im_pc = "returned"
  /\ im_links.value # <<>>
  /\ im_submitted' = im_links.value
  /\ im_downloads' = [i \in 1 .. Len(im_links.value) |-> "queued"]
  /\ im_pc' = "download"
  /\ UNCHANGED <<pipeline, linkvars, imgvars, im_page_num, im_page_source,
                 im_attempt, im_futures, im_image_urls, im_links,
                 downloaded_count>>

\* download_image returns True or, from its except clause, False.
FanDownload(i) ==
  /\ im_pc = "download"
  /\ im_downloads[i] = "queued"
  /\ \E b \in {"True", "False"} :
       im_downloads' = [im_downloads EXCEPT ![i] = b]
  /\ UNCHANGED <<pipeline, linkvars, imgvars, im_pc, im_page_num,
                 im_page_source, im_attempt, im_futures, im_image_urls,
                 im_links, im_submitted, downloaded_count>>

\* downloaded_count = sum(1 for future in futures if future.result())
FanFinish ==
  /\ im_pc = "download"
  /\ \A i \in DOMAIN im_downloads : im_downloads[i] # "queued"
  /\ downloaded_count' =
       Cardinality({ i \in DOMAIN im_downloads : im_downloads[i] = "True" })
  /\ im_pc' = "done"
  /\ UNCHANGED <<pipeline, linkvars, imgvars, im_page_num, im_page_source,
                 im_attempt, im_futures, im_image_urls, im_links, im_submitted,
                 im_downloads>>

NextFan ==
  \/ FanReject
  \/ FanStart
  \/ FanLoop
  \/ FanLoopEnd
  \/ FanFetch
  \/ FanFetchEmpty
  \/ FanFetchFails
  \/ \E d \in DOMAIN im_futures :
       \/ FanTaskRun(d)
       \/ FanTaskDone(d)
       \/ FanTaskRaises(d)
  \/ FanCollect
  \/ FanCollectRaises
  \/ FanNext
  \/ FanNothing
  \/ FanSubmit
  \/ \E i \in DOMAIN im_downloads : FanDownload(i)
  \/ FanFinish

SpecFan == InitFan /\ [][NextFan]_vars

(* ---------------------------------------------------------------------- *)
(* Properties                                                              *)
(* ---------------------------------------------------------------------- *)
\* The detail URLs now in the queue, in order.
QueueItems == SelectSeq(detail_queue, LAMBDA x : x # None)

\* The workers that hold a dequeued detail URL.
InProgress ==
  { w \in Workers :
      wpc[w] \in {"resolve", "resolved", "download", "lock", "write", "returned"} }

AllExited == \A w \in Workers : wpc[w] = "done"

\* C1: in every session that starts the pipeline every worker eventually
\* exits its loop, having dequeued the sentinel exactly once, so that the
\* sentinel observations add up to the number of workers; main then ends.
C1_WorkersTerminate ==
  <>(\/ mpc = "rejected"
     \/ /\ mpc = "done"
        /\ \A w \in Workers : wpc[w] = "done" /\ sentinels[w] = 1)

\* A session of two workers that processed four entries has ended, each
\* worker having seen the sentinel once.
C1_Witness ==
  /\ mpc = "done"
  /\ max_workers = 2
  /\ \A w \in Workers : wpc[w] = "done" /\ sentinels[w] = 1
  /\ finished = 4

\* C2: every detail URL put on the queue is dequeued exactly once, in
\* order; it is held by one worker until that worker has finished with it;
\* once any worker has seen the sentinel no detail URL is left in the
\* queue, and when all workers have exited every entry has been processed.
C2_ExactlyOnce ==
  /\ getLog \o QueueItems = putLog
  /\ Len(getLog) = finished + Cardinality(InProgress)
  /\ (\E w \in Workers : wpc[w] \in {"reput", "done"}) => QueueItems = <<>>
  /\ AllExited => /\ finished = Len(putLog)
                  /\ InProgress = {}

\* One worker has exited on the sentinel while the other still works on an
\* entry it dequeued before.
C2_Witness ==
  /\ \E w \in Workers : wpc[w] = "done"
  /\ \E w \in Workers : wpc[w] = "write"
  /\ Len(putLog) >= 2

\* C3: the queue never receives the same detail URL twice in a session.
C3_NoDuplicatePut ==
  \A i, j \in 1 .. Len(putLog) : i # j => putLog[i] # putLog[j]

\* C4: a download_image or fetch_detail_page call whose first two requests
\* fail and whose third would succeed makes exactly 3 attempts and returns
\* the successful result: it never returns straight from a failed request.
C4_RetryUntilSuccess ==
  [][\A w \in Workers :
       /\ (wpc[w] = "download" /\ httpFails[w] = 2 /\ wpc'[w] = "returned")
            => (attempts'[w] = 3 /\ result'[w] = "True")
       /\ (wpc[w] = "resolve" /\ httpFails[w] = 2 /\ wpc'[w] = "resolved")
            => (attempts'[w] = 3 /\ actual_url'[w] = Button[detail_url[w]])]_vars

AllErr(log) == \A i \in 1 .. Len(log) : log[i] = "err"

\* C5: a fetch_page call runs its body at most 3 times; every attempt that
\* raised is followed by a fresh attempt unless it was the third; the call
\* returns the HTML of the first attempt that succeeds (after failures on
\* attempts 1 and 2, that of attempt 3) and lets the error out to
\* crawl_images only after three failed attempts.
C5_FetchRetry ==
  /\ Len(fp_log) <= stop_max_attempt_number
  /\ cpc \in {"create", "load"} =>
       /\ fp_result = "none"
       /\ AllErr(fp_log)
       /\ fp_attempt = Len(fp_log) + 1
       /\ fp_attempt <= stop_max_attempt_number
  /\ fp_result = "html" =>
       /\ cpc = "parse"
       /\ fp_log # <<>>
       /\ fp_log[Len(fp_log)] = "ok"
       /\ AllErr(SubSeq(fp_log, 1, Len(fp_log) - 1))
       /\ page_source \in 1 .. NumListing
  /\ fp_result = "raised" =>
       /\ cpc = "finally"
       /\ fp_log = <<"err", "err", "err">>

\* Attempts 1 and 2 failed and attempt 3 returned the page.
C5_Witness ==
  /\ fp_result = "html"
  /\ fp_log = <<"err", "err", "ok">>

\* C6: during one fetch_page call the body of create_driver runs at most
\* 3 times in total.
C6_DriverCeiling == cdInCall <= stop_max_attempt_number

\* C7: for a detail page without a download button fetch_detail_page
\* returns None after exactly one attempt, and download_image is only ever
\* called with the button's URL of the worker's item: an item without a
\* button is skipped, the worker holds nothing when it is back at get().
C7_NotFoundSkipped ==
  \A w \in Workers :
    /\ (wpc[w] = "resolved" /\ Button[detail_url[w]] = None)
         => (attempts[w] = 1 /\ actual_url[w] = None)
    /\ wpc[w] \in {"download", "lock", "write", "returned"}
         => /\ Button[detail_url[w]] # None
            /\ actual_url[w] = Button[detail_url[w]]
    /\ wpc[w] \in {"get", "reput", "done"} => detail_url[w] = None

\* A worker that skipped a button-less item is back at get() and the item
\* counts as finished.
C7_Witness ==
  \E w \in Workers :
    /\ wpc[w] = "get"
    /\ getLog # <<>>
    /\ getLog[Len(getLog)] = 3
    /\ finished = Len(getLog)
    /\ \A f \in FileNames : ~fs[f].exists

\* The sentinel is in the queue or in the hands of a worker that is about
\* to put it back.
SentinelAround ==
  \/ \E i \in 1 .. Len(detail_queue) : detail_queue[i] = None
  \/ \E w \in Workers : wpc[w] = "reput"

\* C8: crawl_images makes at most max_pages fetch_page calls; when every
\* fetched page yielded a detail link and a next-page link (page_num was
\* advanced after every fetch) it has made exactly max_pages of them when
\* the loop ends, and it then puts the sentinel.
C8_PageBudget ==
  /\ fetchCalls <= max_pages
  /\ (cpc \in {"finally", "done"} /\ fetchCalls = page_num - 1)
       => fetchCalls = max_pages
  /\ cpc = "done" => SentinelAround

\* Budget 2 on the site whose first pages all have links and a next link:
\* two fetches, then the sentinel.
C8_Witness ==
  /\ cpc = "done"
  /\ max_pages = 2
  /\ url = 1
  /\ fetchCalls = 2
  /\ page_num = 3
  /\ SentinelAround

\* C9: at most one worker is inside the open-write-close sequence.
C9_OneWriter ==
  /\ Cardinality({ w \in Workers : wpc[w] = "write" }) <= 1
  /\ \A w \in Workers : wpc[w] = "write" <=> file_lock = w

\* One worker writes while another, its request answered, waits for the lock.
C9_Witness ==
  \E v, w \in Workers : wpc[v] = "write" /\ wpc[w] = "lock"

\* C10: after a session every file download_image created holds the
\* complete body served for its URL.
C10_NoPartialFile ==
  mpc = "done" =>
    \A f \in FileNames : fs[f].exists => fs[f].data = BodyOf(fs[f].src)

\* C11: a failed resolution or download never ends the worker that ran it
\* nor the session: no worker thread dies of an exception, a worker leaves
\* its loop only on the sentinel, and at the end of the session every
\* enqueued item has been through a worker.
C11_FailureContained ==
  /\ \A w \in Workers : wpc[w] # "crashed"
  /\ \A w \in Workers : wpc[w] \in {"reput", "done"} => sentinels[w] = 1
  /\ \A w \in Workers :
       (wpc[w] = "returned" /\ result[w] = "False") => ENABLED WorkerLoop(w)
  /\ mpc = "done" => (finished = Len(putLog) /\ QueueItems = <<>>)

\* The only worker is resolving a later item while the file of an earlier
\* download of its own is left cut short by a write error.
C11_Witness ==
  /\ max_workers = 1
  /\ wpc[1] = "resolve"
  /\ finished >= 1
  /\ file_lock = 0
  /\ \E f \in FileNames :
       fs[f].exists /\ Len(fs[f].data) < Len(BodyOf(fs[f].src))

\* C12: with a start URL that is neither http:// nor https:// main returns
\* at once: no directory, nothing in the queue, no worker and no crawler
\* started, no page fetched.
C12_RejectedUrl ==
  ~urlOk =>
    /\ mpc \in {"validate", "rejected"}
    /\ ~dirExists
    /\ detail_queue = <<>>
    /\ \A w \in Workers : wpc[w] = "idle"
    /\ cpc = "idle"
    /\ fetchCalls = 0
    /\ open_drivers = 0

\* main has returned on the scheme check.
C12_Witness == mpc = "rejected" /\ ~urlOk /\ ~dirExists

\* The last n detail URLs crawl_images has put.
LastPut(n) == { putLog[i] : i \in (Len(putLog) - n + 1) .. Len(putLog) }

\* C13: while a page fetch is being prepared or is running no detail link
\* waits to be put, and the links of the page parsed before it are the last
\* ones put; while links are being put no rendering session is open.
C13_PutBeforeNextFetch ==
  /\ cpc \in {"next", "loop", "create", "load"} =>
       /\ toPut = {}
       /\ page_source # 0 =>
            LET links == Site[page_source].links
            IN  /\ Len(putLog) >= Cardinality(links)
                /\ LastPut(Cardinality(links)) = links
  /\ cpc = "put" =>
       /\ open_drivers = 0
       /\ toPut # {}
       /\ toPut \subseteq Site[page_source].links
       /\ LastPut(Cardinality(Site[page_source].links \ toPut))
            = Site[page_source].links \ toPut

\* The second page is being loaded, the two links of the first are put.
C13_Witness ==
  /\ cpc = "load"
  /\ fetchCalls = 2
  /\ page_source = 1
  /\ LastPut(2) = {1, 2}

\* The number of sentinels in the queue.
SentinelsQueued == Len(SelectSeq(detail_queue, LAMBDA x : x = None))

\* C14: the queue never holds more than one sentinel, and while it holds
\* one no worker is about to put another.
C14_OneSentinel ==
  /\ SentinelsQueued <= 1
  /\ SentinelsQueued = 1 => \A w \in Workers : wpc[w] # "reput"

\* One of two workers has put the sentinel back and left; the other still
\* holds an item.
C14_Witness ==
  /\ max_workers = 2
  /\ SentinelsQueued = 1
  /\ \E v, w \in Workers : wpc[v] = "done" /\ w \in InProgress

\* Why the pagination loop of crawl_images is over.
EndReason ==
  IF page_num > max_pages THEN "budget"
  ELSE IF page_source = 0 THEN "fetch_failed"
  ELSE IF Site[page_source].links = {} THEN "no_links"
  ELSE IF ~Site[page_source].next THEN "no_next"
  ELSE "fetch_failed"

\* C15: one sentinel is around (queued or in a worker's hands) exactly when
\* crawl_images is over, however its loop ended, and once it is over
\* crawl_images puts nothing more.
C15_SentinelLast ==
  /\ [](/\ (SentinelsQueued + Cardinality({ w \in Workers : wpc[w] = "reput" })
             = IF cpc = "done" THEN 1 ELSE 0)
        /\ cpc = "finally" => SentinelsQueued = 0)
  /\ [][cpc = "done" => (cpc' = "done" /\ putLog' = putLog)]_vars
  /\ [][(cpc # "done" /\ cpc' = "done")
          => (cpc = "finally" /\ detail_queue' = Append(detail_queue, None))]_vars

\* The fetch of the second page failed after the links of the first were
\* put: the sentinel is the last thing in the queue.
C15_Witness ==
  /\ cpc = "done"
  /\ EndReason = "fetch_failed"
  /\ fetchCalls = 2
  /\ Len(putLog) = 2
  /\ detail_queue # <<>>
  /\ detail_queue[Len(detail_queue)] = None

\* s is an initial part of t.
IsPrefix(s, t) == Len(s) <= Len(t) /\ \A i \in 1 .. Len(s) : s[i] = t[i]

\* Two final URLs that differ but end in the same path segment.
SameLastSegment(u1, u2) ==
  /\ u1 # u2
  /\ UrlText[u1].segs[Len(UrlText[u1].segs)] = UrlText[u2].segs[Len(UrlText[u2].segs)]

C20_QueueAtDone == mpc = "done" => detail_queue = << None >>

\* A session of two workers that handled items is done.
C20_Witness ==
  /\ mpc = "done"
  /\ max_workers = 2
  /\ Len(getLog) >= 2
  /\ detail_queue = << None >>

\* C17: when main is done its closing message reports the number of images
\* written and the number of failures, and they are the number of
\* download_image calls that returned True and the number of failed items.
C17_SummaryCounts ==
  mpc = "done" =>
    /\ {"written", "failures"} \subseteq DOMAIN summary
    /\ summary.written = tally.written
    /\ summary.failures = tally.failed

\* The WebDriver sessions of link_fetcher that are open.
OpenSessions ==
  (IF driver = "open" THEN 1 ELSE 0)
    + Cardinality({ d \in DOMAIN futures : futures[d].session })

\* C16: no rendering session outlives the call that acquired it: none is
\* open outside a fetch_page call, a fetch_detail_page task that has ended
\* has quit its session, and none is open once fetch_image_links has
\* returned.
C16_SessionsQuit ==
  /\ cpc \notin {"create", "load"} => open_drivers = 0
  /\ \A d \in DOMAIN futures :
       futures[d].pc \in {"done", "raised"} => ~futures[d].session
  /\ lf_links.returned => OpenSessions = 0

\* The lazy-load attributes of the or chain.
LazyLoad ==
  { "data-src", "data-original", "data-lazy-src", "data-lazy-load",
    "data-img", "data-image" }

\* C19: the candidate of an img element comes from src only when no
\* lazy-load attribute has a value; from the srcset "a.jpg 1x, b.jpg 2x" it
\* is b.jpg; and it is the chosen value resolved against the page URL.
C19_Candidate ==
  (xpc = "done" /\ chosen # "none") =>
    /\ chosen = "src" => \A a \in LazyLoad : Get(img, a) = <<>>
    /\ (chosen = "srcset"
        /\ img[chosen] = << "a.jpg", " ", "1x", ",", " ", "b.jpg", " ", "2x" >>)
         => img_url = urljoin(PageUrl, << "b.jpg" >>)
    /\ chosen # "srcset" => img_url = urljoin(PageUrl, img[chosen])

\* The url crawl_images hands to fetch_page: the name url is never assigned
\* in the loop.
FetchedUrl == url

\* The destination of the next-page link of listing page p.
NextDestination(p) == p + 1

\* C21: from the second iteration on, crawl_images fetches the destination
\* of the next-page link of the page the iteration before returned.
C21_NextPageFetched ==
  (cpc \in {"create", "load"} /\ fetchCalls >= 2 /\ Site[page_source].next)
    => FetchedUrl = NextDestination(page_source)

\* C22: what fetch_image_links returns holds every final image URL it has
\* resolved, also when it returns because a page fetch or a task failed.
C22_ResultsKept ==
  im_links.returned => Range(im_links.value) = Range(im_image_urls)

\* How many times main has submitted u to download_image.
Submissions(u) ==
  Cardinality({ i \in 1 .. Len(im_submitted) : im_submitted[i] = u })

\* C23: no fetch_detail_page task of a page is unfinished when the next
\* page fetch is prepared or runs; nothing is submitted to download_image
\* before fetch_image_links has returned; no URL is submitted twice, and
\* when main is over every final URL the session resolved has been
\* submitted once.
C23_FanOutOrder ==
  /\ im_pc \in {"loop", "fetch"} => FanTasksOver
  /\ (im_submitted # <<>> \/ im_downloads # <<>>) => im_links.returned
  /\ \A u \in Range(im_submitted) : Submissions(u) = 1
  /\ im_pc = "done" => \A u \in Range(im_image_urls) : Submissions(u) = 1

====
